---- MODULE Spec2Model ----
(***************************************************************************)
(* Model of flask_pydantic_spec/utils.py: the helpers that derive the      *)
(* OpenAPI fragments of a view function (parse_comments, parse_request,    *)
(* parse_params, parse_resp, has_model), the default validation hooks and  *)
(* parse_multi_dict.                                                       *)
(*                                                                         *)
(* Every helper is a synchronous function, so each one is an action that   *)
(* takes the machine from pc = "ready" to pc = "done", recording the       *)
(* arguments of the call in `call` and what it returned or raised in       *)
(* `ret`.  Objects that Python mutates in place (the params accumulator,   *)
(* the log, the request and the response) are variables of their own.      *)
(***************************************************************************)
EXTENDS Integers, Sequences, FiniteSets, TLC

VARIABLES
    doc,      \* func.__doc__ of the view function: None or a string
    func,     \* the attributes attached to the view function, in attach order
    models,   \* the model registry: model name -> schema
    params,   \* the params accumulator handed to parse_params (a list)
    input,    \* the MultiDict handed to parse_multi_dict: key -> list of values
    req,      \* the request object handed to the hooks
    resp,     \* the response object handed to the hooks
    logged,   \* the records emitted through logger.info
    pc,       \* "ready" before the call, "done" after it
    call,     \* the call that was made: its name and its arguments
    ret       \* what the call returned, or the exception it raised

vars == <<doc, func, models, params, input, req, resp, logged, pc, call, ret>>

-----------------------------------------------------------------------------
(* Python values.  Every value that may be None is a record, so that None  *)
(* and a value can be compared.                                            *)

None == [kind |-> "None"]
Text(s) == [kind |-> "str", text |-> s]
EmptyMap == [k \in {} |-> None]

Returned(v) == [exc |-> "None", value |-> v]
Raised(e) == [exc |-> e, value |-> None]

NoCall == [op |-> "None"]

-----------------------------------------------------------------------------
(* Bounds of the model.                                                    *)

MaxDocLen == 6
MaxProps == 2
MaxPrior == 1
MaxValues == 2
MaxErrors == 2

-----------------------------------------------------------------------------
(* Strings are sequences of characters.  A docstring is written over an    *)
(* alphabet of one letter, the blank and the line break.                   *)

Chars == {"x", " ", "\n"}
Whitespace == {" ", "\n"}

RECURSIVE StringsUpTo(_)
StringsUpTo(n) ==
    IF n = 0 THEN {<<>>}
    ELSE LET shorter == StringsUpTo(n - 1)
         IN  shorter \cup {Append(s, c) : s \in {t \in shorter : Len(t) = n - 1}, c \in Chars}

Min(S) == CHOOSE m \in S : \A k \in S : m <= k

\* str.lstrip()
RECURSIVE LStrip(_)
LStrip(s) ==
    IF s # <<>> /\ Head(s) \in Whitespace THEN LStrip(Tail(s)) ELSE s

\* str.rstrip()
RECURSIVE RStrip(_)
RStrip(s) ==
    IF s # <<>> /\ s[Len(s)] \in Whitespace THEN RStrip(SubSeq(s, 1, Len(s) - 1)) ELSE s

\* str.strip()
Strip(s) == RStrip(LStrip(s))

\* str.split("\n"): the lines of s, at least one
RECURSIVE SplitLines(_)
SplitLines(s) ==
    IF \A i \in 1..Len(s) : s[i] # "\n" THEN <<s>>
    ELSE LET i == Min({j \in 1..Len(s) : s[j] = "\n"})
         IN  <<SubSeq(s, 1, i - 1)>> \o SplitLines(SubSeq(s, i + 1, Len(s)))

\* "\n".join(lines)
RECURSIVE JoinLines(_)
JoinLines(lines) ==
    IF lines = <<>> THEN <<>>
    ELSE IF Len(lines) = 1 THEN lines[1]
    ELSE lines[1] \o <<"\n">> \o JoinLines(Tail(lines))

RECURSIVE DropTrailingEmpty(_)
DropTrailingEmpty(lines) ==
    IF lines # <<>> /\ lines[Len(lines)] = <<>>
    THEN DropTrailingEmpty(SubSeq(lines, 1, Len(lines) - 1))
    ELSE lines

RECURSIVE DropLeadingEmpty(_)
DropLeadingEmpty(lines) ==
    IF lines # <<>> /\ Head(lines) = <<>> THEN DropLeadingEmpty(Tail(lines)) ELSE lines

\* inspect.cleandoc: the first line loses its indentation, the other lines
\* lose the indentation common to those of them that have content, and the
\* empty lines at both ends are dropped.
Cleandoc(s) ==
    LET lines == SplitLines(s)
        Indent(l) == Len(l) - Len(LStrip(l))
        content == {i \in 2..Len(lines) : LStrip(lines[i]) # <<>>}
        stripped == [i \in 1..Len(lines) |->
                        IF i = 1 THEN LStrip(lines[1])
                        ELSE IF content = {} THEN lines[i]
                        ELSE LET margin == Min({Indent(lines[j]) : j \in content})
                             IN  SubSeq(lines[i], margin + 1, Len(lines[i]))]
    IN  JoinLines(DropLeadingEmpty(DropTrailingEmpty(stripped)))

\* inspect.getdoc(func)
GetDoc(d) == IF d = None THEN None ELSE Text(Cleandoc(d.text))

\* doc.split("\n", 1)
SplitOnce(s) ==
    IF \A i \in 1..Len(s) : s[i] # "\n" THEN <<s>>
    ELSE LET i == Min({j \in 1..Len(s) : s[j] = "\n"})
         IN  <<SubSeq(s, 1, i - 1), SubSeq(s, i + 1, Len(s))>>

\* parse_comments that keeps the remainder untrimmed
ParseCommentsNoStrip(d) ==
    LET got == GetDoc(d)
    IN  IF got = None THEN <<None, None>>
        ELSE LET docs == SplitOnce(got.text)
             IN  IF Len(docs) = 1 THEN <<Text(docs[1]), None>>
                 ELSE <<Text(docs[1]), Text(docs[2])>>

\* parse_comments(func)
ParseComments(d) ==
    LET got == GetDoc(d)
    IN  IF got = None THEN <<None, None>>
        ELSE LET docs == SplitOnce(got.text)
             IN  IF Len(docs) = 1 THEN <<Text(docs[1]), None>>
                 ELSE <<Text(docs[1]), Text(Strip(docs[2]))>>

Docs == {None} \cup {Text(s) : s \in StringsUpTo(MaxDocLen)}

-----------------------------------------------------------------------------
(* The view function and what the validation decorator attaches to it.     *)
(* func is the function's attribute dictionary: a sequence of              *)
(* [attr, value] pairs, one per attribute, in the order of attachment.     *)

\* hasattr(func, x)
HasAttr(f, x) == \E i \in DOMAIN f : f[i].attr = x

\* getattr(func, x), for an attribute that is there
GetAttr(f, x) == f[CHOOSE i \in DOMAIN f : f[i].attr = x].value

\* What `body` may hold: None, a RequestBase instance (a wrapped request
\* spec), a subclass of pydantic.BaseModel, a class that is no model, and an
\* object that is no class at all.
Bodies ==
    { None,
      [kind |-> "RequestBase", name |-> "Wrapped"],
      [kind |-> "BaseModelClass", name |-> "M"],
      [kind |-> "OtherClass", name |-> "Plain"],
      [kind |-> "Object", name |-> "thing"] }

\* isinstance(v, RequestBase)
IsRequestBase(v) == v.kind = "RequestBase"

\* whether v is a class: issubclass(v, ...) raises TypeError when it is not
IsClass(v) == v.kind \in {"BaseModelClass", "OtherClass"}

\* issubclass(v, BaseModel), for a class v
IsBaseModelSubclass(v) == v.kind = "BaseModelClass"

\* RequestBase.generate_spec(): the requestBody fragment of the model
RequestGenerateSpec(v) ==
    [content |-> [schema |-> v.name]]

\* Request(model): the default wrapper of a model class
Request(v) == [kind |-> "RequestBase", name |-> v.name]

\* parse_request(func)
ParseRequest(f) ==
    IF HasAttr(f, "body")
    THEN LET request_body == GetAttr(f, "body")
         IN  IF IsRequestBase(request_body)
             THEN Returned(RequestGenerateSpec(request_body))
             ELSE IF ~IsClass(request_body)
             THEN Raised("TypeError")
             ELSE IF IsBaseModelSubclass(request_body)
             THEN Returned(RequestGenerateSpec(Request(request_body)))
             ELSE Returned(EmptyMap)
    ELSE Returned(EmptyMap)

-----------------------------------------------------------------------------
(* Responses.                                                              *)

Codes == {200, 422}

Digits == <<"0", "1", "2", "3", "4", "5", "6", "7", "8", "9">>

\* str(code), for a code >= 0
RECURSIVE StrOfInt(_)
StrOfInt(n) ==
    IF n < 10 THEN Digits[n + 1]
    ELSE StrOfInt(n \div 10) \o Digits[(n % 10) + 1]

\* The description a response container gives a code it declares
CodeDescription(c) == IF c = 200 THEN "OK" ELSE "Unprocessable Entity"

\* A response container: the codes it declares without a model and the
\* codes it declares with one
Responses ==
    { r \in [kind : {"Response"}, codes : SUBSET Codes, code_models : SUBSET Codes] :
        r.codes \cap r.code_models = {} }

\* Response.generate_spec(): one entry per declared code, keyed by its text
ResponseGenerateSpec(r) ==
    LET declared == r.codes \cup r.code_models
        CodeOf(k) == CHOOSE c \in declared : StrOfInt(c) = k
    IN  [k \in {StrOfInt(c) : c \in declared} |->
            IF CodeOf(k) \in r.code_models
            THEN [description |-> CodeDescription(CodeOf(k)), schema |-> "Model"]
            ELSE [description |-> CodeDescription(CodeOf(k))]]

\* Response.has_model()
ResponseHasModel(r) == r.code_models # {}

\* has_model(func)
HasModel(f) ==
    \/ \E x \in {"query", "json", "headers"} : HasAttr(f, x)
    \/ HasAttr(f, "resp") /\ ResponseHasModel(GetAttr(f, "resp"))

ValidationError == [description |-> "Validation Error"]

\* responses[key] = value
SetItem(m, key, value) ==
    [k \in DOMAIN m \cup {key} |-> IF k = key THEN value ELSE m[k]]

\* parse_resp that writes the validation entry whether or not the code is declared
ParseRespOverwrite(f, code) ==
    LET responses == IF HasAttr(f, "resp")
                     THEN ResponseGenerateSpec(GetAttr(f, "resp"))
                     ELSE EmptyMap
    IN  IF HasModel(f)
        THEN SetItem(responses, StrOfInt(code), ValidationError)
        ELSE responses

\* parse_resp that writes the validation entry for every handler
ParseRespAlways(f, code) ==
    LET responses == IF HasAttr(f, "resp")
                     THEN ResponseGenerateSpec(GetAttr(f, "resp"))
                     ELSE EmptyMap
    IN  IF StrOfInt(code) \notin DOMAIN responses
        THEN SetItem(responses, StrOfInt(code), ValidationError)
        ELSE responses

\* parse_resp(func, code)
ParseResp(f, code) ==
    LET responses == IF HasAttr(f, "resp")
                     THEN ResponseGenerateSpec(GetAttr(f, "resp"))
                     ELSE EmptyMap
    IN  IF StrOfInt(code) \notin DOMAIN responses /\ HasModel(f)
        THEN SetItem(responses, StrOfInt(code), ValidationError)
        ELSE responses

-----------------------------------------------------------------------------
(* Parameters.                                                             *)

FieldNames == {"a", "b", "c"}
SchemaFragments == {"string", "integer"}

Keys(properties) == {properties[i].name : i \in DOMAIN properties}

\* The properties of a model: an ordered mapping from field name to schema
\* fragment, written as the sequence of its items (no name twice)
RECURSIVE PropertiesUpTo(_)
PropertiesUpTo(n) ==
    IF n = 0 THEN {<<>>}
    ELSE LET shorter == PropertiesUpTo(n - 1)
         IN  shorter \cup
             UNION { { Append(p, [name |-> f, schema |-> t]) :
                         f \in FieldNames \ Keys(p), t \in SchemaFragments } :
                     p \in {q \in shorter : Len(q) = n - 1} }

\* A registry entry: `properties`, and a `required` list that may be missing.
\* Only membership in `required` is read, so the list is written as a set.
ModelSchemas ==
    LET ps == PropertiesUpTo(MaxProps)
    IN  {[properties |-> p] : p \in ps} \cup
        UNION {{[properties |-> p, required |-> r] : r \in SUBSET Keys(p)} : p \in ps}

\* A second registered model, the same in every registry
TokenSchema ==
    [properties |-> <<[name |-> "b", schema |-> "integer"], [name |-> "token", schema |-> "string"]>>,
     required |-> {"token"}]

Registries == {("M" :> s) @@ ("N" :> TokenSchema) : s \in ModelSchemas}

ModelClass(n) == [kind |-> "BaseModelClass", name |-> n]

\* The model classes a handler may carry: two registered ones and one that
\* schema derivation never registered
ParamModels == {ModelClass("M"), ModelClass("N"), ModelClass("U")}

\* A descriptor already in the accumulator when parse_params is called
PathParam == [name |-> "id", in |-> "path", schema |-> "integer", required |-> TRUE]

RECURSIVE Accumulators(_)
Accumulators(n) ==
    IF n = 0 THEN {<<>>}
    ELSE LET shorter == Accumulators(n - 1)
         IN  shorter \cup {Append(a, PathParam) : a \in shorter}

\* query.get("required", [])
GetRequired(schema) == IF "required" \in DOMAIN schema THEN schema.required ELSE {}

\* The descriptors of one model with `required` looked up in `properties`
DescriptorsAllRequired(schema, location) ==
    [i \in 1..Len(schema.properties) |->
        [name |-> schema.properties[i].name,
         in |-> location,
         schema |-> schema.properties[i].schema,
         required |-> schema.properties[i].name \in Keys(schema.properties)]]

\* The descriptors of one model: the body of the loop over properties.items()
Descriptors(schema, location) ==
    [i \in 1..Len(schema.properties) |->
        [name |-> schema.properties[i].name,
         in |-> location,
         schema |-> schema.properties[i].schema,
         required |-> schema.properties[i].name \in GetRequired(schema)]]

\* One location that skips a model the registry does not hold
ParseLocationLenient(st, f, reg, attr, location) ==
    IF st.exc # "None" \/ ~HasAttr(f, attr) THEN st
    ELSE LET model_name == GetAttr(f, attr).name
         IN  IF model_name \notin DOMAIN reg
             THEN [st EXCEPT !.reads = Append(@, model_name)]
             ELSE [st EXCEPT !.reads = Append(@, model_name),
                             !.params = @ \o Descriptors(reg[model_name], location)]

\* One `if hasattr(func, attr)` block of parse_params.  st is the state of
\* the call: the accumulator, the exception raised so far and the registry
\* keys read so far.
ParseLocation(st, f, reg, attr, location) ==
    IF st.exc # "None" \/ ~HasAttr(f, attr) THEN st
    ELSE LET model_name == GetAttr(f, attr).name
         IN  IF model_name \notin DOMAIN reg
             THEN [st EXCEPT !.reads = Append(@, model_name), !.exc = "KeyError"]
             ELSE [st EXCEPT !.reads = Append(@, model_name),
                             !.params = @ \o Descriptors(reg[model_name], location)]

LocationOf(attr) ==
    CASE attr = "query" -> "query"
      [] attr = "headers" -> "header"
      [] attr = "cookies" -> "cookie"

\* parse_params that walks the attributes in the order they were attached
RECURSIVE ParseAttached(_, _, _, _)
ParseAttached(st, f, reg, i) ==
    IF i > Len(f) THEN st
    ELSE IF f[i].attr \in {"query", "headers", "cookies"}
    THEN ParseAttached(ParseLocation(st, f, reg, f[i].attr, LocationOf(f[i].attr)), f, reg, i + 1)
    ELSE ParseAttached(st, f, reg, i + 1)

ParseParamsAttachOrder(f, acc, reg) ==
    ParseAttached([params |-> acc, exc |-> "None", reads |-> <<>>], f, reg, 1)

\* parse_params(func, params, models)
ParseParams(f, acc, reg) ==
    LET start == [params |-> acc, exc |-> "None", reads |-> <<>>]
        query == ParseLocation(start, f, reg, "query", "query")
        headers == ParseLocation(query, f, reg, "headers", "header")
        cookies == ParseLocation(headers, f, reg, "cookies", "cookie")
    IN  cookies

-----------------------------------------------------------------------------
(* The default hooks.                                                      *)

ErrorKinds == {"value_error.missing", "type_error.integer"}

RECURSIVE ErrorListsUpTo(_)
ErrorListsUpTo(n) ==
    IF n = 0 THEN {<<>>}
    ELSE LET shorter == ErrorListsUpTo(n - 1)
         IN  shorter \cup {Append(s, e) : s \in {t \in shorter : Len(t) = n - 1}, e \in ErrorKinds}

\* A pydantic ValidationError: the model that failed and its error list
ValidationErrors ==
    [kind : {"ValidationError"}, model : {"M", "N"}, errors : ErrorListsUpTo(MaxErrors) \ {<<>>}]

Requests == {[kind |-> "Request", path |-> "/ping"], [kind |-> "Request", path |-> "/user"]}
HookResponses == {[kind |-> "Response", status |-> 200], [kind |-> "Response", status |-> 422]}
Instances == {None, [kind |-> "View"]}

\* The truth value of `if error:`.  None is false; a ValidationError defines
\* neither __bool__ nor __len__, so it is true.
Truth(v) == v.kind # "None"

LogRecord(msg, error) ==
    [msg |-> msg,
     extra |-> [spectree_model |-> error.model, spectree_validation |-> error.errors]]

\* The after-hook logging under the before-hook's message
AfterHandlerSameMessage(error) ==
    IF Truth(error) THEN <<LogRecord("Validation Error", error)>> ELSE <<>>

\* What default_before_handler hands to logger.info
BeforeHandlerRecords(error) ==
    IF Truth(error) THEN <<LogRecord("Validation Error", error)>> ELSE <<>>

\* What default_after_handler hands to logger.info
AfterHandlerRecords(error) ==
    IF Truth(error) THEN <<LogRecord("500 Response Validation Error", error)>> ELSE <<>>

-----------------------------------------------------------------------------
(* parse_multi_dict.                                                       *)

MultiKeys == {"x", "y"}
MultiValues == {Text("1"), Text("2")}

RECURSIVE ValueListsUpTo(_)
ValueListsUpTo(n) ==
    IF n = 0 THEN {<<>>}
    ELSE LET shorter == ValueListsUpTo(n - 1)
         IN  shorter \cup {Append(s, v) : s \in {t \in shorter : Len(t) = n - 1}, v \in MultiValues}

\* A MultiDict: each key it holds with the list of that key's values (a key
\* set through setlist may hold the empty list)
MultiDicts == UNION {[ks -> ValueListsUpTo(MaxValues)] : ks \in SUBSET MultiKeys}

PyList(items) == [kind |-> "list", items |-> items]

\* MultiDict.to_dict(flat=False): a dict of key -> the list of its values
ToDictLists(d) == [k \in DOMAIN d |-> d[k]]

\* parse_multi_dict that always takes the first value, as to_dict(flat=True) does
ParseMultiDictFlat(d) ==
    LET lists == ToDictLists(d)
    IN  [key \in DOMAIN lists |->
            IF Len(lists[key]) >= 1 THEN lists[key][1] ELSE PyList(lists[key])]

\* parse_multi_dict(input)
ParseMultiDict(d) ==
    LET lists == ToDictLists(d)
    IN  [key \in DOMAIN lists |->
            IF Len(lists[key]) = 1 THEN lists[key][1] ELSE PyList(lists[key])]

-----------------------------------------------------------------------------
(* Handlers.                                                               *)

Absent == [kind |-> "absent"]

\* The decorator attaching one attribute (nothing when there is none to attach)
Attach(f, attr, value) ==
    IF value = Absent THEN f ELSE Append(f, [attr |-> attr, value |-> value])

\* Handlers for the whole build: any body, any response container, and a
\* registered model or none at each parameter location
BuildHandlers ==
    { Attach(Attach(Attach(Attach(Attach(<<>>, "body", b), "query", q), "headers", h),
                    "cookies", c), "resp", r) :
        b \in Bodies \cup {Absent},
        q \in {Absent, ModelClass("M")},
        h \in {Absent, ModelClass("M")},
        c \in {Absent, ModelClass("M")},
        r \in Responses \cup {Absent} }

BuildRegistries ==
    {EmptyMap} \cup {r \in Registries : Len(r["M"].properties) <= 1}

ParamAttrs == {"query", "headers", "cookies"}

\* Handlers for parse_params: any model or none at each location, attached
\* in any order
ParamHandlers ==
    { Attach(Attach(Attach(<<>>, o[1], v[o[1]]), o[2], v[o[2]]), o[3], v[o[3]]) :
        o \in {p \in [1..3 -> ParamAttrs] : \A i, j \in 1..3 : i # j => p[i] # p[j]},
        v \in [ParamAttrs -> ParamModels \cup {Absent}] }

-----------------------------------------------------------------------------
(* The state machine.                                                      *)

Idle ==
    /\ pc = "ready"
    /\ call = NoCall
    /\ ret = None
    /\ logged = <<>>

InitComments ==
    /\ doc \in Docs
    /\ func = <<>> /\ models = EmptyMap /\ params = <<>> /\ input = EmptyMap
    /\ req = None /\ resp = None
    /\ Idle

InitBuild ==
    /\ func \in BuildHandlers
    /\ models \in BuildRegistries
    /\ params \in Accumulators(MaxPrior)
    /\ doc = None /\ input = EmptyMap
    /\ req = None /\ resp = None
    /\ Idle

InitParams ==
    /\ func \in ParamHandlers
    /\ models \in Registries
    /\ params \in Accumulators(MaxPrior)
    /\ doc = None /\ input = EmptyMap
    /\ req = None /\ resp = None
    /\ Idle

InitHooks ==
    /\ req \in Requests
    /\ resp \in HookResponses
    /\ doc = None /\ func = <<>> /\ models = EmptyMap /\ params = <<>> /\ input = EmptyMap
    /\ Idle

InitMultiDict ==
    /\ input \in MultiDicts
    /\ doc = None /\ func = <<>> /\ models = EmptyMap /\ params = <<>>
    /\ req = None /\ resp = None
    /\ Idle

CallParseComments ==
    /\ pc = "ready"
    /\ pc' = "done"
    /\ call' = [op |-> "parse_comments"]
    /\ ret' = Returned(ParseComments(doc))
    /\ UNCHANGED <<doc, func, models, params, input, req, resp, logged>>

CallParseRequest ==
    /\ pc = "ready"
    /\ pc' = "done"
    /\ call' = [op |-> "parse_request"]
    /\ ret' = ParseRequest(func)
    /\ UNCHANGED <<doc, func, models, params, input, req, resp, logged>>

\* The accumulator is appended to in place, so what was appended before a
\* KeyError stays in it; on success the list itself is returned.
CallParseParams ==
    /\ pc = "ready"
    /\ pc' = "done"
    /\ LET out == ParseParams(func, params, models)
       IN  /\ call' = [op |-> "parse_params", params |-> params, reads |-> out.reads]
           /\ params' = out.params
           /\ ret' = IF out.exc = "None" THEN Returned(out.params) ELSE Raised(out.exc)
    /\ UNCHANGED <<doc, func, models, input, req, resp, logged>>

CallParseResp ==
    /\ pc = "ready"
    /\ pc' = "done"
    /\ \E code \in Codes :
        /\ call' = [op |-> "parse_resp", code |-> code]
        /\ ret' = Returned(ParseResp(func, code))
    /\ UNCHANGED <<doc, func, models, params, input, req, resp, logged>>

CallDefaultBeforeHandler ==
    /\ pc = "ready"
    /\ pc' = "done"
    /\ \E error \in {None} \cup ValidationErrors, instance \in Instances :
        /\ call' = [op |-> "default_before_handler", req |-> req, resp |-> resp,
                    error |-> error, instance |-> instance]
        /\ logged' = logged \o BeforeHandlerRecords(error)
    /\ ret' = Returned(None)
    /\ UNCHANGED <<doc, func, models, params, input, req, resp>>

CallDefaultAfterHandler ==
    /\ pc = "ready"
    /\ pc' = "done"
    /\ \E error \in {None} \cup ValidationErrors, instance \in Instances :
        /\ call' = [op |-> "default_after_handler", req |-> req, resp |-> resp,
                    error |-> error, instance |-> instance]
        /\ logged' = logged \o AfterHandlerRecords(error)
    /\ ret' = Returned(None)
    /\ UNCHANGED <<doc, func, models, params, input, req, resp>>

CallParseMultiDict ==
    /\ pc = "ready"
    /\ pc' = "done"
    /\ call' = [op |-> "parse_multi_dict"]
    /\ ret' = Returned(ParseMultiDict(input))
    /\ UNCHANGED <<doc, func, models, params, input, req, resp, logged>>

NextComments == CallParseComments
NextBuild == CallParseRequest \/ CallParseParams \/ CallParseResp
NextParams == CallParseParams
NextHooks == CallDefaultBeforeHandler \/ CallDefaultAfterHandler
NextMultiDict == CallParseMultiDict

SpecComments == InitComments /\ [][NextComments]_vars
SpecBuild == InitBuild /\ [][NextBuild]_vars
SpecParams == InitParams /\ [][NextParams]_vars
SpecHooks == InitHooks /\ [][NextHooks]_vars
SpecMultiDict == InitMultiDict /\ [][NextMultiDict]_vars

-----------------------------------------------------------------------------
(* Properties.                                                             *)

Done(op) == pc = "done" /\ call.op = op

\* The descriptors a parse_params call added to the accumulator it was given
Added == SubSeq(params, Len(call.params) + 1, Len(params))

ParamOrder == <<"query", "headers", "cookies">>

\* The registry entry of the model attached under attr
EntryOf(attr) == models[GetAttr(func, attr).name]

Registered(attr) == GetAttr(func, attr).name \in DOMAIN models

\* Where a property name stands in a model's properties
PositionOf(properties, name) == CHOOSE i \in DOMAIN properties : properties[i].name = name

\* Whether the handler carries a body model: a wrapped request spec or a model class
CarriesBodyModel(f) ==
    HasAttr(f, "body") /\ GetAttr(f, "body").kind \in {"RequestBase", "BaseModelClass"}

\* C1: whenever str(code) is not a key of what the handler's resp generates
\* (or there is no resp) and the handler carries query, headers or a body
\* model, parse_resp's result maps str(code) to the Validation Error entry.
C1_ValidationErrorForAnyInputModel ==
    Done("parse_resp") =>
        LET key == StrOfInt(call.code)
            declared == IF HasAttr(func, "resp")
                        THEN DOMAIN ResponseGenerateSpec(GetAttr(func, "resp"))
                        ELSE {}
        IN  (/\ key \notin declared
             /\ \/ HasAttr(func, "query")
                \/ HasAttr(func, "headers")
                \/ CarriesBodyModel(func))
            => /\ ret.exc = "None"
               /\ key \in DOMAIN ret.value
               /\ ret.value[key] = [description |-> "Validation Error"]

\* C2: parse_request never raises for a body that is None or any object that
\* is neither a wrapped request spec nor a model class; it returns an empty
\* mapping.
C2_UnrecognizedBodyDegradesToEmpty ==
    Done("parse_request") =>
        ((/\ HasAttr(func, "body")
          /\ GetAttr(func, "body").kind \notin {"RequestBase", "BaseModelClass"})
         => ret = Returned(EmptyMap))

\* C3: parse_resp keeps every entry that the handler's resp generates, adds
\* at most the key str(code), and returns exactly what resp generates when
\* str(code) is already a key of it.
C3_ExplicitEntriesPreserved ==
    (Done("parse_resp") /\ HasAttr(func, "resp")) =>
        LET generated == ResponseGenerateSpec(GetAttr(func, "resp"))
            key == StrOfInt(call.code)
        IN  /\ ret.exc = "None"
            /\ \A k \in DOMAIN generated :
                 k \in DOMAIN ret.value /\ ret.value[k] = generated[k]
            /\ DOMAIN ret.value \subseteq DOMAIN generated \cup {key}
            /\ key \in DOMAIN generated => ret.value = generated

\* C3 witness: resp declares 422 itself, the handler has a model, and
\* parse_resp was asked for 422.
C3_Witness ==
    /\ Done("parse_resp")
    /\ call.code = 422
    /\ HasAttr(func, "resp")
    /\ "422" \in DOMAIN ResponseGenerateSpec(GetAttr(func, "resp"))
    /\ HasAttr(func, "query")
    /\ ret.value["422"].description = "Unprocessable Entity"

LocationRank(location) ==
    CASE location = "path" -> 0
      [] location = "query" -> 1
      [] location = "header" -> 2
      [] location = "cookie" -> 3

AttrOfLocation(location) ==
    CASE location = "query" -> "query"
      [] location = "header" -> "headers"
      [] location = "cookie" -> "cookies"

\* C4: the descriptors parse_params appends are ordered query, then header,
\* then cookie, whatever the order of attachment, and within one location
\* they follow the order of that model's properties.
C4_LocationOrder ==
    Done("parse_params") =>
        \A i, j \in DOMAIN Added :
            i < j =>
                /\ LocationRank(Added[i].in) <= LocationRank(Added[j].in)
                /\ Added[i].in = Added[j].in =>
                     LET properties == EntryOf(AttrOfLocation(Added[i].in)).properties
                     IN  PositionOf(properties, Added[i].name)
                           < PositionOf(properties, Added[j].name)

\* C4 witness: cookies were attached first and query last, every location has
\* a registered model, and the call appended two descriptors per location.
C4_Witness ==
    /\ Done("parse_params")
    /\ ret.exc = "None"
    /\ Len(func) = 3
    /\ func[1].attr = "cookies"
    /\ func[3].attr = "query"
    /\ Len(Added) = 6
    /\ Added[1].name = "b"

\* C5: when every attached model is registered, parse_params returns the
\* accumulator, its previous entries first and unchanged, followed by exactly
\* one descriptor per attached location and property, with that property's
\* schema and required true exactly for the names in the model's required
\* list (none when the entry has no required list).
C5_OneDescriptorPerProperty ==
    (/\ Done("parse_params")
     /\ \A attr \in ParamAttrs : HasAttr(func, attr) => Registered(attr)) =>
        LET attached == {attr \in ParamAttrs : HasAttr(func, attr)}
            CountOf(attr) == Len(EntryOf(attr).properties)
            Total == (IF "query" \in attached THEN CountOf("query") ELSE 0)
                     + (IF "headers" \in attached THEN CountOf("headers") ELSE 0)
                     + (IF "cookies" \in attached THEN CountOf("cookies") ELSE 0)
        IN  /\ ret = Returned(params)
            /\ SubSeq(params, 1, Len(call.params)) = call.params
            /\ Len(Added) = Total
            /\ \A attr \in attached :
                 \A p \in DOMAIN EntryOf(attr).properties :
                   LET property == EntryOf(attr).properties[p]
                       hits == {i \in DOMAIN Added :
                                   /\ Added[i].in = LocationOf(attr)
                                   /\ Added[i].name = property.name}
                   IN  /\ Cardinality(hits) = 1
                       /\ \A i \in hits :
                            /\ Added[i].schema = property.schema
                            /\ Added[i].required =
                                 (/\ "required" \in DOMAIN EntryOf(attr)
                                  /\ property.name \in EntryOf(attr).required)

\* C5 witness: query and headers carry the same model, which has two
\* properties of which one is required, and the accumulator was not empty.
C5_Witness ==
    /\ Done("parse_params")
    /\ call.params # <<>>
    /\ HasAttr(func, "query") /\ GetAttr(func, "query").name = "M"
    /\ HasAttr(func, "headers") /\ GetAttr(func, "headers").name = "M"
    /\ ~HasAttr(func, "cookies")
    /\ Len(models["M"].properties) = 2
    /\ "required" \in DOMAIN models["M"]
    /\ Cardinality(models["M"].required) = 1
    /\ Len(Added) = 4

NoAttributes(f) ==
    \A x \in {"body", "query", "headers", "cookies", "resp"} : ~HasAttr(f, x)

\* C6: for a handler with none of body, query, headers, cookies and resp,
\* parse_request returns an empty mapping, parse_params returns the
\* accumulator unchanged without reading the registry, and parse_resp
\* returns an empty map.
C6_BareHandler ==
    (pc = "done" /\ NoAttributes(func)) =>
        /\ call.op = "parse_request" => ret = Returned(EmptyMap)
        /\ call.op = "parse_params" =>
             /\ ret = Returned(call.params)
             /\ params = call.params
             /\ call.reads = <<>>
        /\ call.op = "parse_resp" => ret = Returned(EmptyMap)

\* C6 witness: parse_resp was called for 422 on a handler with no attribute.
C6_Witness ==
    /\ Done("parse_resp")
    /\ call.code = 422
    /\ NoAttributes(func)
    /\ models # EmptyMap
    /\ params # <<>>

\* C7: when an attached model is not registered, parse_params raises the
\* lookup error; the accumulator then holds its previous entries, every
\* descriptor of the locations before the failing one, and no descriptor of
\* the failing location or of a later one.
C7_LookupErrorPropagates ==
    (/\ Done("parse_params")
     /\ \E attr \in ParamAttrs : HasAttr(func, attr) /\ ~Registered(attr)) =>
        LET failing == Min({n \in 1..3 :
                              HasAttr(func, ParamOrder[n]) /\ ~Registered(ParamOrder[n])})
        IN  /\ ret = Raised("KeyError")
            /\ SubSeq(params, 1, Len(call.params)) = call.params
            /\ \A i \in DOMAIN Added : LocationRank(Added[i].in) < failing
            /\ \A n \in 1..(failing - 1) :
                 HasAttr(func, ParamOrder[n]) =>
                   Cardinality({i \in DOMAIN Added : Added[i].in = LocationOf(ParamOrder[n])})
                     = Len(EntryOf(ParamOrder[n]).properties)

\* C7 witness: query is registered, headers is not, cookies is; the call
\* raised after appending the query descriptors.
C7_Witness ==
    /\ Done("parse_params")
    /\ HasAttr(func, "query") /\ GetAttr(func, "query").name = "M"
    /\ HasAttr(func, "headers") /\ GetAttr(func, "headers").name = "U"
    /\ HasAttr(func, "cookies") /\ GetAttr(func, "cookies").name = "N"
    /\ ret.exc = "KeyError"
    /\ Len(Added) = 2

\* C8: parse_multi_dict returns a mapping over the container's keys in which
\* a key with exactly one value maps to that value and every other key to the
\* whole list of its values; it does not fail, and an empty container gives
\* an empty mapping.
C8_Flattening ==
    Done("parse_multi_dict") =>
        /\ ret.exc = "None"
        /\ DOMAIN ret.value = DOMAIN input
        /\ \A key \in DOMAIN input :
             /\ Len(input[key]) = 1 => ret.value[key] = input[key][1]
             /\ Len(input[key]) # 1 => ret.value[key] = [kind |-> "list", items |-> input[key]]
        /\ DOMAIN input = {} => ret.value = EmptyMap

\* C8 witness: x has one value and y has the same value twice.
C8_Witness ==
    /\ Done("parse_multi_dict")
    /\ DOMAIN input = {"x", "y"}
    /\ input["x"] = <<Text("1")>>
    /\ input["y"] = <<Text("2"), Text("2")>>
    /\ ret.value["x"] = Text("1")

\* C9: each default hook emits exactly one log record, with the failing
\* model's name, its error list and the hook's own message, when the
\* validation error is not None, and none when it is None; it returns None,
\* does not raise and leaves the request and the response as they were.
C9_HooksOnlyLog ==
    (pc = "done" /\ call.op \in {"default_before_handler", "default_after_handler"}) =>
        /\ ret = Returned(None)
        /\ req = call.req
        /\ resp = call.resp
        /\ call.error = None => logged = <<>>
        /\ call.error # None =>
             /\ Len(logged) = 1
             /\ logged[1].extra = [spectree_model |-> call.error.model,
                                   spectree_validation |-> call.error.errors]
             /\ logged[1].msg = IF call.op = "default_before_handler"
                                THEN "Validation Error"
                                ELSE "500 Response Validation Error"

\* C9 witness: the after-hook was called with a validation error of two entries.
C9_Witness ==
    /\ Done("default_after_handler")
    /\ call.error # None
    /\ Len(call.error.errors) = 2
    /\ Len(logged) = 1

\* t is r without its leading and trailing whitespace
IsTrimOf(t, r) ==
    \E i, j \in 0..Len(r) :
        /\ i <= j
        /\ t = SubSeq(r, i + 1, j)
        /\ \A k \in 1..i : r[k] \in Whitespace
        /\ \A k \in (j + 1)..Len(r) : r[k] \in Whitespace
        /\ t # <<>> => t[1] \notin Whitespace /\ t[Len(t)] \notin Whitespace
        /\ t = <<>> => i = j

\* C10: parse_comments returns (None, None) for a handler without
\* documentation text; otherwise the summary is the text before the first
\* line break, and the description is None when there is no line break and
\* else everything after the first line break with the whitespace at both
\* ends removed.
C10_SummaryAndDescription ==
    Done("parse_comments") =>
        LET text == GetDoc(doc)
        IN  /\ ret.exc = "None"
            /\ text = None => ret.value = <<None, None>>
            /\ text # None =>
                 LET s == text.text
                     breaks == {i \in 1..Len(s) : s[i] = "\n"}
                 IN  /\ breaks = {} => ret.value = <<Text(s), None>>
                     /\ \A first \in breaks :
                          (\A i \in breaks : first <= i) =>
                            /\ ret.value[1] = Text(SubSeq(s, 1, first - 1))
                            /\ ret.value[2] # None
                            /\ IsTrimOf(ret.value[2].text, SubSeq(s, first + 1, Len(s)))

\* C10 witness: a summary, an empty line, and a description of two lines.
C10_Witness ==
    /\ Done("parse_comments")
    /\ doc = Text(<<"x", "\n", "\n", "x", "\n", "x">>)
    /\ ret.value = <<Text(<<"x">>), Text(<<"x", "\n", "x">>)>>

====
